---- MODULE Spec2Model ----
(***************************************************************************)
(* A model of wifi_file_server (src/src/main.rs): path sanitisation and    *)
(* the file handler, byte-range parsing and file serving, and the          *)
(* selection cache shared by the register-selection and config handlers.   *)
(*                                                                         *)
(* Strings are sequences of one-character strings.  Option<T> is a         *)
(* sequence of length 0 (None) or 1 (Some).                                *)
(***************************************************************************)
EXTENDS Integers, Sequences, FiniteSets, TLC

VARIABLES
    reqPath,      \* file_handler: the {*path} capture of GET /files/{*path}
    reqHeader,    \* file_handler: the Range header of the request
    fileSize,     \* metadata.len() of the regular files of the served tree
    io,           \* outcome of File::open / file.metadata() for this request
    resp,         \* the outcome of the request: nothing yet, a response, a panic
    cache,        \* state.download_cache: the entries, most recently used first
    nextId,       \* the next value Uuid::new_v4() returns (ids are never reused)
    lock,         \* the task holding the download_cache mutex, 0 when it is free
    pc,           \* where each request task stands in its handler
    local,        \* the local variables of each request task
    out,          \* the last response sent by one of the two handlers
    lookups,      \* number of GET /config requests so far
    clock,        \* history: number of cache accesses (put, successful get) so far
    lastUse,      \* history: lastUse[id] is the clock of the last access to id
    prior,        \* history: the cache's oldest key and length before the last access
    body,         \* register_selection: the request body { files, dirs }
    phase,        \* register_selection: where the handler stands
    exp_stack,    \* expand_dirs: stack, the directories still to list
    exp_result,   \* expand_dirs: result, the paths collected so far
    raw           \* history: the result of each expansion as it was before result.sort()

fileVars == <<reqPath, reqHeader, fileSize, io, resp>>
cacheVars == <<cache, nextId, lock, pc, local, out, lookups, clock, lastUse, prior>>
selVars == <<body, phase, exp_stack, exp_result, raw>>
vars == <<reqPath, reqHeader, fileSize, io, resp,
          cache, nextId, lock, pc, local, out, lookups, clock, lastUse, prior,
          body, phase, exp_stack, exp_result, raw>>

None == <<>>
Some(x) == <<x>>

(***************************************************************************)
(* Bounds of the model.                                                    *)
(***************************************************************************)
MaxPathLen == 7       \* longest request path, in characters
MaxRangeLen == 4      \* longest text after the leading "bytes=" of a Range header
MaxFileSize == 12     \* largest file size
MaxRegs == 101        \* the last id a behaviour issues
MaxLookups == 1       \* GET /config requests in one behaviour
MaxTasks == 2         \* concurrent request tasks
MaxLockRegs == 3      \* registrations of the concurrent tasks

\* TLC integers are 32 bits wide, so u64 arithmetic is kept modulo 2^30
\* instead of 2^64; every number the bounded inputs can spell is far below
\* both, and the only wrap-around either modulus produces is that of 0 - 1.
U64Modulus == 2^30

(***************************************************************************)
(* String helpers (std::str).                                              *)
(***************************************************************************)
\* All strings over alphabet of length <= n, shortest first.
RECURSIVE StringsUpTo(_, _)
StringsUpTo(alphabet, n) ==
    IF n = 0 THEN {<<>>}
    ELSE LET shorter == StringsUpTo(alphabet, n - 1)
         IN  shorter \cup {Append(s, c) : s \in shorter, c \in alphabet}

starts_with(s, p) == Len(s) >= Len(p) /\ SubSeq(s, 1, Len(p)) = p

\* str::strip_prefix: removes the prefix once.
strip_prefix_once(s, p) ==
    IF starts_with(s, p) THEN SubSeq(s, Len(p) + 1, Len(s)) ELSE s

\* str::trim_start_matches: removes the prefix as many times as it matches.
RECURSIVE trim_start_matches(_, _)
trim_start_matches(s, p) ==
    IF p # <<>> /\ starts_with(s, p)
    THEN trim_start_matches(SubSeq(s, Len(p) + 1, Len(s)), p)
    ELSE s

\* str::split(sep): every occurrence of sep separates two pieces; the result
\* has one piece more than s has separators (pieces may be empty).
RECURSIVE split(_, _)
split(s, sep) ==
    IF \A i \in 1..Len(s) : s[i] # sep THEN <<s>>
    ELSE LET i == CHOOSE k \in 1..Len(s) :
                      s[k] = sep /\ \A j \in 1..(k - 1) : s[j] # sep
         IN  <<SubSeq(s, 1, i - 1)>> \o split(SubSeq(s, i + 1, Len(s)), sep)

Digits == {"0", "1", "2", "3", "4", "5", "6", "7", "8", "9"}

DigitVal(c) ==
    CASE c = "0" -> 0 [] c = "1" -> 1 [] c = "2" -> 2 [] c = "3" -> 3
      [] c = "4" -> 4 [] c = "5" -> 5 [] c = "6" -> 6 [] c = "7" -> 7
      [] c = "8" -> 8 [] c = "9" -> 9

\* The value of a digit string, or U64Modulus once it no longer fits.
RECURSIVE DecimalValue(_)
DecimalValue(ds) ==
    IF ds = <<>> THEN 0
    ELSE LET hi == DecimalValue(SubSeq(ds, 1, Len(ds) - 1))
         IN  IF hi >= U64Modulus \div 10 THEN U64Modulus
             ELSE hi * 10 + DigitVal(ds[Len(ds)])

\* str::parse::<u64>: an optional leading '+', then one or more decimal
\* digits and nothing else; Err on the empty string, on any other character
\* (a '-' sign included) and on a value that does not fit.
parse_u64(s) ==
    LET ds == IF s # <<>> /\ s[1] = "+" THEN SubSeq(s, 2, Len(s)) ELSE s
    IN  IF ds = <<>> \/ \E i \in 1..Len(ds) : ds[i] \notin Digits THEN None
        ELSE IF DecimalValue(ds) >= U64Modulus THEN None
        ELSE Some(DecimalValue(ds))

(***************************************************************************)
(* Paths (std::path, Unix).  A PathBuf is a sequence of components; a      *)
(* location of the file system is the sequence of names leading to it from *)
(* the file-system root.                                                   *)
(***************************************************************************)
RootDir == [kind |-> "RootDir", name |-> <<>>]
CurDir == [kind |-> "CurDir", name |-> <<>>]
ParentDir == [kind |-> "ParentDir", name |-> <<>>]
Normal(n) == [kind |-> "Normal", name |-> n]

\* Path::components: a leading '/' is RootDir; the rest is cut at every '/';
\* empty pieces vanish, "." vanishes except as the very first piece of a
\* relative path (CurDir), ".." is ParentDir, anything else is Normal.
components(path) ==
    LET has_root == path # <<>> /\ path[1] = "/"
        segs == split(path, "/")
        comp(i) ==
            IF segs[i] = <<>> THEN <<>>
            ELSE IF segs[i] = <<".">> THEN (IF i = 1 /\ ~has_root THEN <<CurDir>> ELSE <<>>)
            ELSE IF segs[i] = <<".", ".">> THEN <<ParentDir>>
            ELSE <<Normal(segs[i])>>
        RECURSIVE from(_)
        from(i) == IF i > Len(segs) THEN <<>> ELSE comp(i) \o from(i + 1)
    IN  (IF has_root THEN <<RootDir>> ELSE <<>>) \o from(1)

\* Path::join: an absolute argument replaces the base.
join(base, p) == IF p # <<>> /\ p[1].kind = "RootDir" THEN p ELSE base \o p

\* The location a PathBuf names, resolved lexically (the tree has no symlinks).
RECURSIVE Resolve(_)
Resolve(p) ==
    IF p = <<>> THEN <<>>
    ELSE LET before == Resolve(SubSeq(p, 1, Len(p) - 1))
             c == p[Len(p)]
         IN  CASE c.kind = "RootDir" -> <<>>
               [] c.kind = "CurDir" -> before
               [] c.kind = "ParentDir" ->
                    IF before = <<>> THEN <<>> ELSE SubSeq(before, 1, Len(before) - 1)
               [] OTHER -> Append(before, c.name)

sanitize_path_keep_parent(path) ==
    SelectSeq(components(path), LAMBDA c : c.kind \in {"Normal", "ParentDir"})

sanitize_path(path) ==
    SelectSeq(components(path), LAMBDA c : c.kind = "Normal")

(***************************************************************************)
(* The served tree.  state.root is /d/d; /s and /d/s are files outside it. *)
(* Under root: d/ (s, and d/ which cannot be listed), sd/ (s, d, dd/ (s))  *)
(* and the file ss.                                                        *)
(***************************************************************************)
D == <<"d">>
S == <<"s">>
SD == <<"s", "d">>
DD == <<"d", "d">>
SS == <<"s", "s">>
root == <<RootDir, Normal(D), Normal(D)>>
RootLoc == Resolve(root)

Dirs == {<<>>, <<D>>, <<D, D>>, <<D, D, D>>, <<D, D, D, D>>,
         <<D, D, SD>>, <<D, D, SD, DD>>}
Files == {<<S>>, <<D, S>>, <<D, D, D, S>>,
          <<D, D, SD, S>>, <<D, D, SD, D>>, <<D, D, SD, DD, S>>, <<D, D, SS>>}
Unlistable == {<<D, D, D, D>>}     \* read_dir fails: permission denied

exists(p) == Resolve(p) \in Dirs \cup Files
is_dir(p) == Resolve(p) \in Dirs

\* loc is root or below it
UnderRoot(loc) == Len(loc) >= Len(RootLoc) /\ SubSeq(loc, 1, Len(RootLoc)) = RootLoc

(***************************************************************************)
(* Responses.                                                              *)
(***************************************************************************)
NOT_FOUND == 404
INTERNAL_SERVER_ERROR == 500
OK == 200
PARTIAL_CONTENT == 206

NoResp == [kind |-> "none", status |-> 0, target |-> None, acceptRanges |-> FALSE,
           contentRange |-> None, contentLength |-> None, body |-> None, log |-> "none"]
\* the handler's task panicked: the client gets no response at all
Panic == [NoResp EXCEPT !.kind = "panic"]
\* StatusCode::into_response: a status and an empty body
StatusOnly(code) == [NoResp EXCEPT !.kind = "response", !.status = code]

\* HeaderValue::from_str accepts visible ASCII and tab only.
HeaderUnsafe == {"\n", "\r"}
ValidHeaderValue(s) == \A i \in 1..Len(s) : s[i] \notin HeaderUnsafe

(***************************************************************************)
(* Range parsing.                                                          *)
(***************************************************************************)
BytesEq == <<"b", "y", "t", "e", "s", "=">>

RangeNone == [kind |-> "None", start |-> 0, end |-> 0]
RangeSome(s, e) == [kind |-> "Some", start |-> s, end |-> e]
RangePanic == [kind |-> "panic", start |-> 0, end |-> 0]

in_range_inclusive(start, end, size) == start <= end /\ end <= size

\* the acceptance test of parse_range
in_range(start, end, size) == start <= end /\ end < size

\* parse_range.  `size - 1` is an argument of unwrap_or, so it is computed as
\* soon as a second piece exists, whether or not that piece parses.  With
\* size = 0 the subtraction overflows: a build with overflow checks (the
\* default dev profile) panics there, one without (release) wraps around.
parse_range(header, size, overflow_checks) ==
    IF ~starts_with(header, BytesEq) THEN RangeNone
    ELSE LET parts == split(trim_start_matches(header, BytesEq), "-")
             start == parse_u64(parts[1])
         IN  IF start = None THEN RangeNone
             ELSE IF Len(parts) < 2 THEN RangeNone
             ELSE IF size = 0 /\ overflow_checks THEN RangePanic
             ELSE LET dflt == (size - 1) % U64Modulus
                      parsed == parse_u64(parts[2])
                      end == IF parsed = None THEN dflt ELSE parsed[1]
                  IN  IF in_range(start[1], end, size)
                      THEN RangeSome(start[1], end)
                      ELSE RangeNone

(***************************************************************************)
(* File serving.                                                           *)
(***************************************************************************)
NonVisible == {"~"}     \* stands for a byte HeaderValue::to_str rejects
to_str(v) == IF \E i \in 1..Len(v) : v[i] \in NonVisible THEN None ELSE Some(v)
unwrap_or(opt, dflt) == IF opt = None THEN dflt ELSE opt[1]

range_length_exclusive(start, end) == end - start

\* let length = end - start + 1
range_length(start, end) == end - start + 1

IoOutcomes == {"ok", "open_err", "metadata_err", "seek_err"}

serve_file_open_err_500(path, headers, size, outcome, overflow_checks) ==
    LET filename == path[Len(path)].name
        sent == [NoResp EXCEPT !.kind = "response", !.target = Some(Resolve(path)),
                               !.acceptRanges = TRUE]
        range == IF headers = None THEN RangeNone
                 ELSE parse_range(unwrap_or(to_str(headers[1]), <<>>), size, overflow_checks)
    IN  IF outcome = "open_err" THEN StatusOnly(INTERNAL_SERVER_ERROR)
        ELSE IF outcome = "metadata_err" THEN StatusOnly(INTERNAL_SERVER_ERROR)
        ELSE IF ~ValidHeaderValue(filename) THEN Panic
        ELSE IF range.kind = "panic" THEN Panic
        ELSE IF range.kind = "Some" THEN
            LET length == range_length(range.start, range.end)
                offset == IF outcome = "seek_err" THEN 0 ELSE range.start
            IN  [sent EXCEPT !.status = PARTIAL_CONTENT,
                             !.contentRange = Some(<<range.start, range.end, size>>),
                             !.contentLength = Some(length),
                             !.body = Some(<<offset, IF length <= size - offset
                                                     THEN length ELSE size - offset>>),
                             !.log = "partial"]
        ELSE [sent EXCEPT !.status = OK,
                          !.contentLength = Some(size),
                          !.body = Some(<<0, size>>),
                          !.log = "full"]

\* serve_file(path, headers, client) with the file's size, the outcome of the
\* file operations and the build's overflow checking made explicit.
\* headers is headers.get(RANGE): None or Some(value).
serve_file(path, headers, size, outcome, overflow_checks) ==
    LET filename == path[Len(path)].name
        sent == [NoResp EXCEPT !.kind = "response", !.target = Some(Resolve(path)),
                               !.acceptRanges = TRUE]
        range == IF headers = None THEN RangeNone
                 ELSE parse_range(unwrap_or(to_str(headers[1]), <<>>), size, overflow_checks)
    IN  IF outcome = "open_err" THEN StatusOnly(NOT_FOUND)
        ELSE IF outcome = "metadata_err" THEN StatusOnly(INTERNAL_SERVER_ERROR)
        ELSE IF ~ValidHeaderValue(filename) THEN Panic
        ELSE IF range.kind = "panic" THEN Panic
        ELSE IF range.kind = "Some" THEN
            LET length == range_length(range.start, range.end)
                \* a failed seek is dropped by .ok(): the file stays at offset 0
                offset == IF outcome = "seek_err" THEN 0 ELSE range.start
            IN  [sent EXCEPT !.status = PARTIAL_CONTENT,
                             !.contentRange = Some(<<range.start, range.end, size>>),
                             !.contentLength = Some(length),
                             \* file.take(length): at most length bytes, up to end of file
                             !.body = Some(<<offset, IF length <= size - offset
                                                     THEN length ELSE size - offset>>),
                             !.log = "partial"]
        ELSE [sent EXCEPT !.status = OK,
                          !.contentLength = Some(size),
                          !.body = Some(<<0, size>>),
                          !.log = "full"]

\* render_directory: read_dir(...).expect(...) panics when the listing fails.
render_directory(dir) ==
    IF Resolve(dir) \in Unlistable \/ Resolve(dir) \notin Dirs THEN Panic
    ELSE [NoResp EXCEPT !.kind = "response", !.status = OK, !.target = Some(Resolve(dir)),
                        !.log = "listing"]

file_handler(path, headers, size, outcome, overflow_checks) ==
    LET full_path == join(root, sanitize_path(path))
    IN  IF ~exists(full_path) THEN StatusOnly(NOT_FOUND)
        ELSE IF is_dir(full_path) THEN render_directory(full_path)
        ELSE serve_file(full_path, headers, size, outcome, overflow_checks)

(***************************************************************************)
(* Directory expansion.                                                    *)
(***************************************************************************)
\* The byte of a character, for the ordering of String.
Byte(c) ==
    CASE c = "+" -> 43 [] c = "," -> 44 [] c = "-" -> 45 [] c = "." -> 46
      [] c = "/" -> 47 [] c \in Digits -> 48 + DigitVal(c) [] c = "=" -> 61
      [] c = "d" -> 100 [] c = "s" -> 115
      [] c = "\t" -> 9 [] c = "\n" -> 10 [] c = "\r" -> 13 [] c = "\"" -> 34
      [] c = "\\" -> 92 [] c = "a" -> 97 [] c = "n" -> 110 [] OTHER -> 126

\* a < b in the byte-wise lexicographic order of str
RECURSIVE str_lt(_, _)
str_lt(a, b) ==
    IF b = <<>> THEN FALSE
    ELSE IF a = <<>> THEN TRUE
    ELSE IF Byte(a[1]) # Byte(b[1]) THEN Byte(a[1]) < Byte(b[1])
    ELSE str_lt(Tail(a), Tail(b))

sort_keep_order(v) == v

\* Vec::sort: ascending, equal elements kept.
RECURSIVE sort(_)
sort(v) ==
    IF v = <<>> THEN <<>>
    ELSE LET m == CHOOSE i \in 1..Len(v) : \A j \in 1..Len(v) : ~str_lt(v[j], v[i])
         IN  <<v[m]>> \o sort(SubSeq(v, 1, m - 1) \o SubSeq(v, m + 1, Len(v)))

dedup_keep_all(v) == v

\* Vec::dedup: removes consecutive repeated elements.
RECURSIVE dedup(_)
dedup(v) ==
    IF Len(v) <= 1 THEN v
    ELSE IF v[1] = v[2] THEN dedup(Tail(v))
    ELSE <<v[1]>> \o dedup(Tail(v))

\* Path::to_string_lossy of a relative location: the names joined by '/'.
RECURSIVE to_string(_)
to_string(names) ==
    IF names = <<>> THEN <<>>
    ELSE IF Len(names) = 1 THEN names[1]
    ELSE names[1] \o <<"/">> \o to_string(Tail(names))

\* strip_prefix(root) of a location under root
strip_root(loc) == SubSeq(loc, Len(RootLoc) + 1, Len(loc))

\* the entries read_dir yields for a directory, in some order
RECURSIVE SetToSeq(_)
SetToSeq(set) ==
    IF set = {} THEN <<>>
    ELSE LET x == CHOOSE y \in set : TRUE IN <<x>> \o SetToSeq(set \ {x})
Entries(loc) ==
    SetToSeq({e \in Dirs \cup Files : Len(e) = Len(loc) + 1 /\ SubSeq(e, 1, Len(loc)) = loc})

\* The worklist loop of expand_dirs: stack holds locations still to list.
RECURSIVE expand_loop(_, _)
expand_loop(stack, result) ==
    IF stack = <<>> THEN result
    ELSE LET path == stack[Len(stack)]
             rest == SubSeq(stack, 1, Len(stack) - 1)
         IN  IF path \notin Dirs \/ path \in Unlistable
             THEN expand_loop(rest, result)          \* Err(_) => continue
             ELSE LET es == Entries(path)
                      subdirs == SelectSeq(es, LAMBDA e : e \in Dirs)
                      found == SelectSeq(es, LAMBDA e : e \notin Dirs /\ UnderRoot(e))
                  IN  expand_loop(rest \o subdirs,
                                  result \o [i \in 1..Len(found) |->
                                                 to_string(strip_root(found[i]))])

expand_dirs(dirs) ==
    sort(expand_loop([i \in 1..Len(dirs) |-> Resolve(join(root, sanitize_path(dirs[i])))],
                     <<>>))

(***************************************************************************)
(* The selection cache: lru::LruCache<String, Vec<String>> with capacity   *)
(* 100 behind a Mutex.                                                     *)
(***************************************************************************)
Capacity == 100

Keys(c) == {c[i].key : i \in 1..Len(c)}
Without(c, k) == SelectSeq(c, LAMBDA e : e.key # k)
Oldest(c) == IF c = <<>> THEN 0 ELSE c[Len(c)].key

lru_put_no_evict(c, k, v) == <<[key |-> k, val |-> v]>> \o Without(c, k)

lru_put_evict_newest(c, k, v) ==
    IF k \in Keys(c) THEN <<[key |-> k, val |-> v]>> \o Without(c, k)
    ELSE IF Len(c) = Capacity THEN <<[key |-> k, val |-> v]>> \o Tail(c)
    ELSE <<[key |-> k, val |-> v]>> \o c

\* LruCache::put: a present key is updated and moved to the front; a new key
\* goes to the front, after the entry at the back is dropped if the cache is full.
lru_put(c, k, v) ==
    IF k \in Keys(c) THEN <<[key |-> k, val |-> v]>> \o Without(c, k)
    ELSE IF Len(c) = Capacity
    THEN <<[key |-> k, val |-> v]>> \o SubSeq(c, 1, Len(c) - 1)
    ELSE <<[key |-> k, val |-> v]>> \o c

lru_peek(c, k) ==
    IF k \notin Keys(c) THEN [val |-> None, cache |-> c]
    ELSE [val |-> Some((CHOOSE e \in {c[i] : i \in 1..Len(c)} : e.key = k).val),
          cache |-> c]

\* LruCache::get(..).cloned(): the value of a present key, which moves to the front.
lru_get(c, k) ==
    IF k \notin Keys(c) THEN [val |-> None, cache |-> c]
    ELSE LET e == CHOOSE x \in {c[i] : i \in 1..Len(c)} : x.key = k
         IN  [val |-> Some(e.val), cache |-> <<e>> \o Without(c, k)]

\* register_selection, lines 150-154: the list that is stored.
all_files(sel) == dedup(sort(sel.files \o expand_dirs(sel.dirs)))

escape_char_keep_backslash(ch) ==
    CASE ch = "\"" -> <<"\\", "\"">>
      [] ch = "," -> <<"\\", ",">>
      [] ch = "\n" -> <<"\\", "n">>
      [] ch = "\r" -> <<"\\", "r">>
      [] ch = "\t" -> <<"\\", "t">>
      [] OTHER -> <<ch>>

\* the match of escape_curl_config_value: what one character becomes
escape_char(ch) ==
    CASE ch = "\\" -> <<"\\", "\\">>
      [] ch = "\"" -> <<"\\", "\"">>
      [] ch = "," -> <<"\\", ",">>
      [] ch = "\n" -> <<"\\", "n">>
      [] ch = "\r" -> <<"\\", "r">>
      [] ch = "\t" -> <<"\\", "t">>
      [] OTHER -> <<ch>>

\* escape_curl_config_value: the characters of input, in order, each escaped.
RECURSIVE escape_curl_config_value(_)
escape_curl_config_value(input) ==
    IF input = <<>> THEN <<>>
    ELSE escape_char(input[1]) \o escape_curl_config_value(Tail(input))

\* format!("{}/files/", state.host)
FilesUrl == <<"h", "/", "f", "i", "l", "e", "s", "/">>

\* the url and output lines of one path of the list (lines 178-184)
config_pair(path) ==
    LET escaped == escape_curl_config_value(path)
    IN  [url |-> FilesUrl \o escaped, output |-> escaped]

\* config_handler, lines 172-194: the response for the result of the lookup.
config_response(id, files) ==
    IF files # None
    THEN [op |-> "config", id |-> id, status |-> OK, files |-> files[1],
          pairs |-> [i \in 1..Len(files[1]) |-> config_pair(files[1][i])]]
    ELSE [op |-> "config", id |-> id, status |-> NOT_FOUND, files |-> <<>>, pairs |-> <<>>]

NoOut == [op |-> "none", id |-> 0, status |-> 0, files |-> <<>>, pairs |-> <<>>]
NoLocal == [id |-> 0, files |-> <<>>, found |-> None]
Tasks == 1..MaxTasks

FilePath == <<"d", "/", "s">>                   \* names the file /d/d/d/s

\* Request bodies of POST /register-selection.
DS == <<"d", "/", "s">>
SelectionFileAndDir == [files |-> <<DS>>, dirs |-> <<D>>]

\* The cache after n registrations of SelectionFileAndDir and no lookup.
Filled(n) == [i \in 1..n |-> [key |-> n + 1 - i, val |-> all_files(SelectionFileAndDir)]]

InitCacheAfter(n) ==
    /\ cache = Filled(n)
    /\ nextId = n + 1
    /\ lock = 0
    /\ pc = [t \in Tasks |-> "idle"]
    /\ local = [t \in Tasks |-> NoLocal]
    /\ out = NoOut
    /\ lookups = 0
    /\ clock = n
    /\ lastUse = [i \in 1..n |-> i]
    /\ prior = [oldest |-> IF n <= 1 THEN 0 ELSE 1, len |-> IF n = 0 THEN 0 ELSE n - 1]

InitNoSelection ==
    /\ body = [files |-> <<>>, dirs |-> <<>>]
    /\ phase = "idle"
    /\ exp_stack = <<>>
    /\ exp_result = <<>>
    /\ raw = <<>>

InitNoRequest ==
    /\ reqPath = FilePath
    /\ reqHeader = None
    /\ fileSize = 0
    /\ io = "ok"
    /\ resp = NoResp

(***************************************************************************)
(* GET /files/{*path}: one request per behaviour.  The request path, the   *)
(* Range header, the file size and the outcome of the file operations are  *)
(* the inputs.                                                             *)
(***************************************************************************)
PathAlphabet == {"/", ".", "s", "d"}
AllPaths == StringsUpTo(PathAlphabet, MaxPathLen) \ {<<>>}
FewPaths == {FilePath, <<"d">>, <<"d", "/", "d">>, <<"s">>, <<".", ".", "/", "s">>}

RangeAlphabet == {"0", "1", "-", ",", "+"}
RangePrefixes == {<<>>, BytesEq, BytesEq \o BytesEq, <<"B">> \o SubSeq(BytesEq, 2, 6)}
AllRanges == {pre \o rem : pre \in RangePrefixes,
                           rem \in StringsUpTo(RangeAlphabet, MaxRangeLen)}
FewRanges == {BytesEq \o <<"0", "-", "0">>, BytesEq \o <<"1", "-">>, BytesEq \o <<"~">>}
FileSizes == 0..MaxFileSize

InitFiles ==
    /\ InitCacheAfter(0)
    /\ InitNoSelection
    /\ resp = NoResp
    /\ \/ /\ reqPath \in AllPaths
          /\ reqHeader \in {None, Some(BytesEq \o <<"0", "-", "0">>)}
          /\ fileSize = MaxFileSize
          /\ io = "ok"
       \/ /\ reqPath = FilePath
          /\ reqHeader \in {Some(h) : h \in AllRanges}
          /\ fileSize \in FileSizes
          /\ io = "ok"
       \/ /\ reqPath \in FewPaths
          /\ reqHeader \in {None} \cup {Some(h) : h \in FewRanges}
          /\ fileSize \in {0, MaxFileSize}
          /\ io \in IoOutcomes

FileHandler ==
    /\ resp = NoResp
    /\ \E overflow_checks \in BOOLEAN :
           resp' = file_handler(reqPath, reqHeader, fileSize, io, overflow_checks)
    /\ UNCHANGED <<reqPath, reqHeader, fileSize, io>>
    /\ UNCHANGED <<cacheVars, selVars>>

NextFiles == FileHandler

SpecFiles == InitFiles /\ [][NextFiles]_vars

(***************************************************************************)
(* POST /register-selection and GET /config/{id}, one request after the    *)
(* other: each action is a whole handler.                                  *)
(***************************************************************************)
\* The ids a client asks for: one never issued, the first one issued, and
\* the oldest key of the cache.
LookupTargets == {0, 1} \cup (IF cache = <<>> THEN {} ELSE {Oldest(cache)})

Observe == prior' = [oldest |-> Oldest(cache), len |-> Len(cache)]

RegisterSelection(sel) ==
    /\ nextId <= MaxRegs
    /\ cache' = lru_put(cache, nextId, all_files(sel))
    /\ nextId' = nextId + 1
    /\ out' = [op |-> "register", id |-> nextId, status |-> OK, files |-> <<>>, pairs |-> <<>>]
    /\ clock' = clock + 1
    /\ lastUse' = Append(lastUse, clock + 1)
    /\ Observe
    /\ UNCHANGED <<lock, pc, local, lookups>>
    /\ UNCHANGED <<fileVars, selVars>>

ConfigHandler(id) ==
    /\ lookups < MaxLookups
    /\ LET got == lru_get(cache, id)
       IN  /\ cache' = got.cache
           /\ out' = config_response(id, got.val)
           /\ IF got.val = None THEN UNCHANGED <<clock, lastUse>>
              ELSE /\ clock' = clock + 1
                   /\ lastUse' = [lastUse EXCEPT ![id] = clock + 1]
    /\ lookups' = lookups + 1
    /\ Observe
    /\ UNCHANGED <<nextId, lock, pc, local>>
    /\ UNCHANGED <<fileVars, selVars>>

InitCache == InitNoRequest /\ InitNoSelection /\ InitCacheAfter(0)

NextCache ==
    \/ RegisterSelection(SelectionFileAndDir)
    \/ \E id \in LookupTargets : ConfigHandler(id)

SpecCache == InitCache /\ [][NextCache]_vars

(***************************************************************************)
(* The same two handlers run by concurrent tasks, one action per step      *)
(* between two points where another task can run.  The behaviours start    *)
(* from a cache that earlier registrations have filled but for one slot.    *)
(***************************************************************************)
\* the task is suspended at an .await (expand_dirs: read_dir, next_entry, file_type)
SuspensionPoints == {"expand_dirs"}

\* Request tasks are interchangeable: a new request is given the free task
\* of the lowest number.
Free(t) == pc[t] = "idle" /\ \A u \in Tasks : u < t => pc[u] # "idle"

RegStartLocked(t, sel) ==
    /\ Free(t)
    /\ lock = 0
    /\ nextId + Cardinality({u \in Tasks : pc[u] = "expand_dirs"}) < Capacity + MaxLockRegs
    /\ lock' = t
    /\ pc' = [pc EXCEPT ![t] = "expand_dirs"]
    /\ local' = [local EXCEPT ![t] = [NoLocal EXCEPT !.files = all_files(sel)]]
    /\ UNCHANGED <<cache, nextId, out, lookups, clock, lastUse, prior>>
    /\ UNCHANGED <<fileVars, selVars>>

\* register_selection is called and awaits expand_dirs (lines 147-151)
RegStart(t, sel) ==
    /\ Free(t)
    /\ nextId + Cardinality({u \in Tasks : pc[u] = "expand_dirs"}) < Capacity + MaxLockRegs
    /\ pc' = [pc EXCEPT ![t] = "expand_dirs"]
    /\ local' = [local EXCEPT ![t] = [NoLocal EXCEPT !.files = all_files(sel)]]
    /\ UNCHANGED <<cache, nextId, lock, out, lookups, clock, lastUse, prior>>
    /\ UNCHANGED <<fileVars, selVars>>

\* expand_dirs returns; sort, dedup, Uuid::new_v4() (lines 151-156)
RegExpanded(t) ==
    /\ pc[t] = "expand_dirs"
    /\ pc' = [pc EXCEPT ![t] = "lock"]
    /\ local' = [local EXCEPT ![t].id = nextId]
    /\ nextId' = nextId + 1
    /\ lastUse' = Append(lastUse, 0)
    /\ UNCHANGED <<cache, lock, out, lookups, clock, prior>>
    /\ UNCHANGED <<fileVars, selVars>>

\* state.download_cache.lock() (line 157)
RegLock(t) ==
    /\ pc[t] = "lock"
    /\ lock = 0
    /\ lock' = t
    /\ pc' = [pc EXCEPT ![t] = "put"]
    /\ UNCHANGED <<cache, nextId, local, out, lookups, clock, lastUse, prior>>
    /\ UNCHANGED <<fileVars, selVars>>

\* cache.put(id.clone(), all_files) (line 158)
RegPut(t) ==
    /\ pc[t] = "put"
    /\ cache' = lru_put(cache, local[t].id, local[t].files)
    /\ pc' = [pc EXCEPT ![t] = "inserted"]
    /\ clock' = clock + 1
    /\ lastUse' = [lastUse EXCEPT ![local[t].id] = clock + 1]
    /\ Observe
    /\ UNCHANGED <<nextId, lock, local, out, lookups>>
    /\ UNCHANGED <<fileVars, selVars>>

\* Json(SelectionResponse { id }) and the end of the function, where the
\* guard is dropped (lines 160-161)
RegReturn(t) ==
    /\ pc[t] = "inserted"
    /\ lock' = 0
    /\ out' = [op |-> "register", id |-> local[t].id, status |-> OK, files |-> <<>>,
                pairs |-> <<>>]
    /\ pc' = [pc EXCEPT ![t] = "idle"]
    /\ local' = [local EXCEPT ![t] = NoLocal]
    /\ UNCHANGED <<cache, nextId, lookups, clock, lastUse, prior>>
    /\ UNCHANGED <<fileVars, selVars>>

\* config_handler is called and takes the lock (line 168)
CfgLock(t, id) ==
    /\ Free(t)
    /\ lookups < MaxLookups
    /\ lock = 0
    /\ lock' = t
    /\ pc' = [pc EXCEPT ![t] = "get"]
    /\ local' = [local EXCEPT ![t] = [NoLocal EXCEPT !.id = id]]
    /\ lookups' = lookups + 1
    /\ UNCHANGED <<cache, nextId, out, clock, lastUse, prior>>
    /\ UNCHANGED <<fileVars, selVars>>

\* cache.get(&id).cloned() (line 169)
CfgGet(t) ==
    /\ pc[t] = "get"
    /\ LET got == lru_get(cache, local[t].id)
       IN  /\ cache' = got.cache
           /\ local' = [local EXCEPT ![t].found = got.val]
           /\ IF got.val = None THEN UNCHANGED <<clock, lastUse>>
              ELSE /\ clock' = clock + 1
                   /\ lastUse' = [lastUse EXCEPT ![local[t].id] = clock + 1]
    /\ pc' = [pc EXCEPT ![t] = "unlock"]
    /\ Observe
    /\ UNCHANGED <<nextId, lock, out, lookups>>
    /\ UNCHANGED <<fileVars, selVars>>

\* the end of the block: the guard is dropped (line 170)
CfgUnlock(t) ==
    /\ pc[t] = "unlock"
    /\ lock' = 0
    /\ pc' = [pc EXCEPT ![t] = "respond"]
    /\ UNCHANGED <<cache, nextId, local, out, lookups, clock, lastUse, prior>>
    /\ UNCHANGED <<fileVars, selVars>>

\* the response is built from the copy of the list (lines 172-194)
CfgRespond(t) ==
    /\ pc[t] = "respond"
    /\ out' = config_response(local[t].id, local[t].found)
    /\ pc' = [pc EXCEPT ![t] = "idle"]
    /\ local' = [local EXCEPT ![t] = NoLocal]
    /\ UNCHANGED <<cache, nextId, lock, lookups, clock, lastUse, prior>>
    /\ UNCHANGED <<fileVars, selVars>>

InitLock == InitNoRequest /\ InitNoSelection /\ InitCacheAfter(Capacity - 1)

NextLock ==
    \E t \in Tasks :
        \/ RegStart(t, SelectionFileAndDir)
        \/ RegExpanded(t)
        \/ RegLock(t)
        \/ RegPut(t)
        \/ RegReturn(t)
        \/ \E id \in LookupTargets : CfgLock(t, id)
        \/ CfgGet(t)
        \/ CfgUnlock(t)
        \/ CfgRespond(t)

SpecLock == InitLock /\ [][NextLock]_vars

(***************************************************************************)
(* POST /api/register_selection followed step by step: expand_dirs lists   *)
(* one directory per step, read_dir yielding its entries in any order, and *)
(* the handler then sorts, deduplicates and stores the list.  The request  *)
(* body is sent MaxRounds times against the same tree, then a config is    *)
(* fetched.                                                                *)
(***************************************************************************)
MaxRounds == 2
MaxEscLen == 3

\* expand_dirs, lines 443-446: the initial stack
seed_stack(dirs) == [i \in 1..Len(dirs) |-> Resolve(join(root, sanitize_path(dirs[i])))]

\* the entries of a directory (DirEntry::path of each)
Children(loc) ==
    {e \in Dirs \cup Files : Len(e) = Len(loc) + 1 /\ SubSeq(e, 1, Len(loc)) = loc}

\* every order in which read_dir may yield the entries of a directory
Listings(loc) ==
    LET es == Children(loc)
        n == Cardinality(es)
    IN  {q \in [1..n -> es] : \A i, j \in 1..n : i # j => q[i] # q[j]}

list_entries_flat(rest, res, listing) ==
    LET found == SelectSeq(listing, LAMBDA e : e \notin Dirs /\ UnderRoot(e))
    IN  [stack |-> rest,
         result |-> res \o [i \in 1..Len(found) |-> to_string(strip_root(found[i]))]]

\* the inner loop, lines 453-460, over the entries in the order listed
list_entries(rest, res, listing) ==
    LET subdirs == SelectSeq(listing, LAMBDA e : e \in Dirs)
        found == SelectSeq(listing, LAMBDA e : e \notin Dirs /\ UnderRoot(e))
    IN  [stack |-> rest \o subdirs,
         result |-> res \o [i \in 1..Len(found) |-> to_string(strip_root(found[i]))]]

expand_step_abort(stk, res, listing) ==
    LET path == stk[Len(stk)]
        rest == SubSeq(stk, 1, Len(stk) - 1)
    IN  IF path \notin Dirs \/ path \in Unlistable
        THEN [stack |-> <<>>, result |-> res]
        ELSE list_entries(rest, res, listing)

expand_step_no_pop(stk, res, listing) ==
    LET path == stk[Len(stk)]
        rest == SubSeq(stk, 1, Len(stk) - 1)
    IN  IF path \notin Dirs \/ path \in Unlistable
        THEN [stack |-> stk, result |-> res]
        ELSE list_entries(rest, res, listing)

\* one iteration of `while let Some(path) = stack.pop()`, lines 448-461
expand_step(stk, res, listing) ==
    LET path == stk[Len(stk)]
        rest == SubSeq(stk, 1, Len(stk) - 1)
    IN  IF path \notin Dirs \/ path \in Unlistable
        THEN [stack |-> rest, result |-> res]           \* Err(_) => continue
        ELSE list_entries(rest, res, listing)

\* request bodies over the served tree
P_ss == <<"s", "s">>
P_sd == <<"s", "d">>
P_sd_s == <<"s", "d", "/", "s">>
P_sd_dd == <<"s", "d", "/", "d", "d">>
P_d_d == <<"d", "/", "d">>
P_up_s == <<".", ".", "/", "s">>
P_up_sd == <<".", ".", "/", "s", "d">>
TreeBodies ==
    { [files |-> <<P_ss>>, dirs |-> <<P_sd>>],               \* a file and a directory
      [files |-> <<P_sd_s, P_sd_s>>, dirs |-> <<P_sd>>],     \* repeated, and under the directory
      [files |-> <<>>, dirs |-> <<P_sd, <<>>, P_sd_dd>>],     \* overlapping directories
      [files |-> <<P_up_s>>, dirs |-> <<P_d_d, P_sd>>],      \* unlistable directory first
      [files |-> <<>>, dirs |-> <<P_ss, S, P_up_sd, P_d_d>>] } \* a file, a missing path

\* request bodies naming one file, of a name that needs escaping
EscAlphabet == {"\\", "\"", ",", "\n", "\r", "\t", "n", "a"}
EscNames == StringsUpTo(EscAlphabet, MaxEscLen) \ {<<>>}
EscBodies == {[files |-> <<v>>, dirs |-> <<>>] : v \in EscNames}

SelStart ==
    /\ phase = "idle"
    /\ Len(raw) < MaxRounds
    /\ phase' = "expanding"
    /\ exp_stack' = seed_stack(body.dirs)
    /\ exp_result' = <<>>
    /\ UNCHANGED <<body, raw>>
    /\ UNCHANGED <<fileVars, cacheVars>>

ExpandStep ==
    /\ phase = "expanding"
    /\ exp_stack # <<>>
    /\ \E listing \in Listings(exp_stack[Len(exp_stack)]) :
           LET r == expand_step(exp_stack, exp_result, listing)
           IN  /\ exp_stack' = r.stack
               /\ exp_result' = r.result
    /\ UNCHANGED <<body, phase, raw>>
    /\ UNCHANGED <<fileVars, cacheVars>>

\* lines 448, 463-464: the stack is empty, the result is sorted and returned
ExpandReturn ==
    /\ phase = "expanding"
    /\ exp_stack = <<>>
    /\ raw' = Append(raw, exp_result)
    /\ exp_result' = sort(exp_result)
    /\ phase' = "expanded"
    /\ UNCHANGED <<body, exp_stack>>
    /\ UNCHANGED <<fileVars, cacheVars>>

\* register_selection, lines 150-160
SelStore ==
    /\ phase = "expanded"
    /\ cache' = lru_put(cache, nextId, dedup(sort(body.files \o exp_result)))
    /\ nextId' = nextId + 1
    /\ out' = [op |-> "register", id |-> nextId, status |-> OK, files |-> <<>>,
                pairs |-> <<>>]
    /\ clock' = clock + 1
    /\ lastUse' = Append(lastUse, clock + 1)
    /\ Observe
    /\ phase' = "idle"
    /\ UNCHANGED <<body, exp_stack, exp_result, raw>>
    /\ UNCHANGED <<lock, pc, local, lookups>>
    /\ UNCHANGED fileVars

\* GET /api/config/{id} once the registrations are done
SelConfig(id) ==
    /\ phase = "idle"
    /\ Len(raw) = MaxRounds
    /\ ConfigHandler(id)

InitSelect ==
    /\ InitNoRequest
    /\ InitCacheAfter(0)
    /\ body \in TreeBodies \cup EscBodies
    /\ phase = "idle"
    /\ exp_stack = <<>>
    /\ exp_result = <<>>
    /\ raw = <<>>

NextSelect ==
    \/ SelStart
    \/ ExpandStep
    \/ ExpandReturn
    \/ SelStore
    \/ \E id \in 0..MaxRounds : SelConfig(id)

SpecSelect == InitSelect /\ [][NextSelect]_vars

\* the runtime keeps polling the handler's future: while the worklist is not
\* empty the next iteration of the loop is eventually taken
SpecSelectFair == SpecSelect /\ WF_vars(ExpandStep)

(***************************************************************************)
(* Properties of GET /files/{*path}.                                       *)
(***************************************************************************)
Responded == resp.kind # "none"
FullPath == join(root, sanitize_path(reqPath))
\* the request names a regular file and the file opens and has metadata
FileServed == /\ Responded
              /\ Resolve(FullPath) \in Files
              /\ io \notin {"open_err", "metadata_err"}
HeaderText == IF reqHeader = None THEN <<>> ELSE unwrap_or(to_str(reqHeader[1]), <<>>)
DotDotDotDotS == <<".", ".", "/", ".", ".", "/", "s">>

\* C1: for every request path, root.join(sanitize_path(path)) is root or a
\* lexical descendant of root, the file or directory a response was produced
\* from lies under root, a path with no entry under root is answered 404, and
\* ../../s resolves to root/s, which does not exist, and is answered 404.
C1_StaysUnderRoot ==
    /\ UnderRoot(Resolve(FullPath))
    /\ resp.target # None => UnderRoot(resp.target[1])
    /\ Responded /\ Resolve(root \o sanitize_path(reqPath)) \notin Dirs \cup Files
          => resp = StatusOnly(NOT_FOUND)
    /\ reqPath = DotDotDotDotS
          => /\ Resolve(FullPath) = Append(RootLoc, S)
             /\ Responded => resp = StatusOnly(NOT_FOUND)

C1_Witness ==
    /\ reqPath = DotDotDotDotS
    /\ <<S>> \in Files
    /\ resp = StatusOnly(NOT_FOUND)

\* C6: when the Range header parses to a usable range (start, end) of a file
\* of size N, the response is 206 with Content-Range bytes start-end/N,
\* Content-Length end - start + 1 and Accept-Ranges: bytes; bytes=0-11 on a
\* file of 12 bytes gives bytes 0-11/12 and length 12, bytes=0-1 gives length 2.
C6_PartialContent ==
    FileServed /\ reqHeader # None =>
        /\ \A oc \in BOOLEAN :
             LET r == parse_range(HeaderText, fileSize, oc)
             IN  r.kind = "Some" =>
                   /\ resp.status = PARTIAL_CONTENT
                   /\ resp.contentRange = Some(<<r.start, r.end, fileSize>>)
                   /\ resp.contentLength = Some(r.end - r.start + 1)
                   /\ resp.acceptRanges
        /\ HeaderText = BytesEq \o <<"0", "-", "1">> /\ fileSize > 2
              => /\ resp.status = PARTIAL_CONTENT
                 /\ resp.contentRange = Some(<<0, 1, fileSize>>)
                 /\ resp.contentLength = Some(2)

C6_Witness ==
    /\ FileServed
    /\ HeaderText = BytesEq \o <<"0", "-", "1", "1">>
    /\ resp.status = PARTIAL_CONTENT
    /\ resp.contentRange = Some(<<0, 11, 12>>)
    /\ resp.contentLength = Some(12)

\* The positions of '-' in a string, and the least member of a set of numbers.
DashPositions(s) == {i \in 1..Len(s) : s[i] = "-"}
Least(set) == CHOOSE x \in set : \A y \in set : x <= y

\* A header of the form bytes=<start>-<end>, both decimal numbers: <<start, end>>.
ExplicitRange(h) ==
    IF ~starts_with(h, BytesEq) THEN None
    ELSE LET rem == SubSeq(h, 7, Len(h))
             ds == DashPositions(rem)
         IN  IF Cardinality(ds) # 1 THEN None
             ELSE LET d == Least(ds)
                      s == parse_u64(SubSeq(rem, 1, d - 1))
                      e == parse_u64(SubSeq(rem, d + 1, Len(rem)))
                  IN  IF s = None \/ e = None THEN None ELSE Some(<<s[1], e[1]>>)

FullResponse ==
    /\ resp.kind = "response"
    /\ resp.status = OK
    /\ resp.contentLength = Some(fileSize)
    /\ resp.contentRange = None
    /\ resp.body = Some(<<0, fileSize>>)

\* C7: a range request bytes=<start>-<end> with end >= N or start > end on a
\* file of size N is ignored: the response is 200 with Content-Length N, no
\* Content-Range and the whole file as body.
C7_BadRangeIgnored ==
    FileServed /\ ExplicitRange(HeaderText) # None =>
        LET r == ExplicitRange(HeaderText)[1]
        IN  r[2] >= fileSize \/ r[1] > r[2] => FullResponse

\* C7 restricted to files of at least one byte.
C7_NonEmptyFile == fileSize >= 1 => C7_BadRangeIgnored

\* C8: whenever parse_range returns a range it satisfies
\* start <= end < file_size, and a 206 response never advertises a range that
\* reaches past the end of the file.
C8_RangeWithinFile ==
    /\ reqHeader # None =>
          \A oc \in BOOLEAN :
              LET r == parse_range(HeaderText, fileSize, oc)
              IN  r.kind = "Some" => r.start <= r.end /\ r.end < fileSize
    /\ resp.status = PARTIAL_CONTENT =>
          /\ resp.contentRange # None
          /\ resp.contentRange[1][1] <= resp.contentRange[1][2]
          /\ resp.contentRange[1][2] < resp.contentRange[1][3]
          /\ resp.contentRange[1][3] = fileSize

C8_Witness ==
    /\ FileServed
    /\ resp.status = PARTIAL_CONTENT
    /\ resp.contentRange = Some(<<1, fileSize - 1, fileSize>>)
    /\ HeaderText = BytesEq \o <<"1", "-", "1", "1">>

\* The grammar of the specification read as a parser: the prefix bytes= is
\* removed once, the remainder is cut once at its first '-' into a start and
\* an optional end, an end that is absent or does not parse is size - 1.
GrammarRange(h, size) ==
    IF ~starts_with(h, BytesEq) THEN RangeNone
    ELSE LET rem == SubSeq(h, 7, Len(h))
             ds == DashPositions(rem)
             d == IF ds = {} THEN Len(rem) + 1 ELSE Least(ds)
             start == parse_u64(SubSeq(rem, 1, d - 1))
             endp == IF ds = {} THEN None ELSE parse_u64(SubSeq(rem, d + 1, Len(rem)))
             end == IF endp = None THEN size - 1 ELSE endp[1]
         IN  IF start = None THEN RangeNone
             ELSE IF start[1] <= end /\ end < size THEN RangeSome(start[1], end)
             ELSE RangeNone

\* What the server answers to a range result on a file that is served.
AnswersRange(r) ==
    IF r.kind = "Some"
    THEN /\ resp.status = PARTIAL_CONTENT
         /\ resp.contentRange = Some(<<r.start, r.end, fileSize>>)
    ELSE FullResponse

\* C9 as claimed: for every header and every file size >= 1, parse_range
\* gives what the grammar of the specification gives, and the response
\* follows it.
C9_MatchesGrammar ==
    FileServed /\ reqHeader # None /\ fileSize >= 1 =>
        /\ parse_range(HeaderText, fileSize, FALSE) = GrammarRange(HeaderText, fileSize)
        /\ AnswersRange(GrammarRange(HeaderText, fileSize))

\* The number of times the prefix bytes= is repeated at the start of h.
RECURSIVE PrefixCount(_)
PrefixCount(h) ==
    IF Len(h) >= 6 /\ \A i \in 1..6 : h[i] = BytesEq[i]
    THEN 1 + PrefixCount([i \in 1..(Len(h) - 6) |-> h[i + 6]])
    ELSE 0

\* The grammar parse_range implements: every leading repetition of bytes= is
\* removed, a remainder without '-' is no range, the start is the text before
\* the first '-', the end is the text between the first '-' and the second
\* (or the end of the header), and an end that does not parse is size - 1.
AmendedRange(h, size) ==
    LET k == PrefixCount(h)
        rem == [i \in 1..(Len(h) - 6 * k) |-> h[i + 6 * k]]
        ds == DashPositions(rem)
    IN  IF k = 0 \/ ds = {} THEN RangeNone
        ELSE LET d1 == Least(ds)
                 d2 == IF ds = {d1} THEN Len(rem) + 1 ELSE Least(ds \ {d1})
                 start == parse_u64(SubSeq(rem, 1, d1 - 1))
                 endp == parse_u64(SubSeq(rem, d1 + 1, d2 - 1))
                 end == IF endp = None THEN size - 1 ELSE endp[1]
             IN  IF start = None THEN RangeNone
                 ELSE IF start[1] <= end /\ end < size THEN RangeSome(start[1], end)
                 ELSE RangeNone

\* C9 as amended: for every header and every file size >= 1, parse_range
\* gives what the grammar above gives, and the response follows it: the
\* prefix is removed as often as it repeats, only the first two of the pieces
\* between '-' are used, and a header without '-' is no range.
C9_MatchesAmendedGrammar ==
    reqHeader # None /\ fileSize >= 1 =>
        /\ parse_range(HeaderText, fileSize, FALSE) = AmendedRange(HeaderText, fileSize)
        /\ parse_range(HeaderText, fileSize, TRUE) = AmendedRange(HeaderText, fileSize)
        /\ FileServed => AnswersRange(AmendedRange(HeaderText, fileSize))

\* bytes=bytes=0-1 is served as the range 0-1
C9_Witness ==
    /\ FileServed
    /\ HeaderText = BytesEq \o BytesEq \o <<"0", "-", "1">>
    /\ fileSize = MaxFileSize
    /\ resp.status = PARTIAL_CONTENT
    /\ resp.contentRange = Some(<<0, 1, fileSize>>)

\* A header of the form bytes=<start>-<end or empty>.
StartDashEnd(h) ==
    /\ starts_with(h, BytesEq)
    /\ LET rem == SubSeq(h, 7, Len(h))
           ds == DashPositions(rem)
       IN  /\ Cardinality(ds) = 1
           /\ parse_u64(SubSeq(rem, 1, Least(ds) - 1)) # None
           /\ \/ Least(ds) = Len(rem)
              \/ parse_u64(SubSeq(rem, Least(ds) + 1, Len(rem))) # None

\* C10: for a file of size 0 and a header bytes=<start>-<end or empty>, range
\* parsing yields no usable range, whatever the build does with 0 - 1, and
\* the empty file is served with status 200.
C10_EmptyFileServed ==
    FileServed /\ fileSize = 0 /\ reqHeader # None /\ StartDashEnd(HeaderText)
        => FullResponse

(***************************************************************************)
(* Properties of the selection cache.                                      *)
(***************************************************************************)
\* the status GET /config/{id} would be answered with in the current state
ConfigStatus(c, id) == config_response(id, lru_get(c, id).val).status
\* the keys a step removes from the cache
Evicted == Keys(cache) \ Keys(cache')
IsInsert == nextId' = nextId + 1

\* C2: after 101 registrations and no config lookup, GET /config of the
\* first id registered is answered 404 and that of each of the other 100 ids
\* is answered 200; and every insert into a full cache removes exactly one
\* entry, one whose last access (insert or successful lookup) is oldest.
C2_EvictsOldest ==
    /\ [](nextId = Capacity + 2 /\ lookups = 0 =>
            /\ ConfigStatus(cache, 1) = NOT_FOUND
            /\ \A id \in 2..(Capacity + 1) : ConfigStatus(cache, id) = OK)
    /\ [][IsInsert /\ Len(cache) = Capacity =>
            /\ Cardinality(Evicted) = 1
            /\ Keys(cache') = (Keys(cache) \ Evicted) \cup {nextId}
            /\ \A gone \in Evicted : \A k \in Keys(cache) :
                   lastUse[gone] <= lastUse[k]]_vars

C2_Witness ==
    /\ nextId = Capacity + 2
    /\ out = config_response(1, None)
    /\ lookups = 1
    /\ Keys(cache) = 2..(Capacity + 1)

\* C3: after a successful config lookup of X, X is the most recently used
\* entry; and when X was the oldest entry of a full cache, the registration
\* that follows removes another entry, the oldest of those not looked up,
\* and X is still answered 200.
C3_LookupRefreshes ==
    /\ [](out.op = "config" /\ out.status = OK => cache[1].key = out.id)
    /\ [][/\ out.op = "config" /\ out.status = OK
          /\ prior.oldest = out.id /\ prior.len = Capacity
          /\ IsInsert
          => /\ ConfigStatus(cache', out.id) = OK
             /\ Evicted # {}
             /\ \A gone \in Evicted :
                   /\ gone # out.id
                   /\ \A k \in Keys(cache) \ {out.id} : lastUse[gone] <= lastUse[k]]_vars

C3_Witness ==
    /\ out.op = "register"
    /\ nextId = Capacity + 2
    /\ lastUse[1] = Capacity + 1
    /\ 1 \in Keys(cache)
    /\ 2 \notin Keys(cache)
    /\ Len(cache) = Capacity

\* C4: under every interleaving of the register-selection and config tasks
\* the cache holds at most 100 entries, no key twice, and the id of a
\* registration is in the cache when its put has completed.
C4_CacheBounded ==
    /\ Len(cache) <= Capacity
    /\ Cardinality(Keys(cache)) = Len(cache)
    /\ \A t \in Tasks : pc[t] = "inserted" => local[t].id \in Keys(cache)

C4_Witness ==
    \E t, u \in Tasks :
        /\ pc[t] = "inserted"
        /\ pc[u] = "lock"
        /\ local[u].id < local[t].id
        /\ prior.len = Capacity
        /\ Len(cache) = Capacity

\* C5: the task holding the cache lock is never at a suspension point: a
\* register-selection task holds it only between its lock() and its return,
\* after expand_dirs has completed, and a config task has released it before
\* it builds the response.
C5_NoAwaitUnderLock ==
    /\ lock # 0 => pc[lock] \notin SuspensionPoints
    /\ lock # 0 => pc[lock] \in {"put", "inserted", "get", "unlock"}
    /\ \A t \in Tasks : pc[t] \in {"idle", "expand_dirs", "lock", "respond"} => lock # t

C5_Witness ==
    \E t, u \in Tasks :
        /\ pc[t] = "expand_dirs"
        /\ lock = u
        /\ pc[u] = "get"

(***************************************************************************)
(* Properties of registered selections and of the generated config.        *)
(***************************************************************************)
\* the lists the cache holds
StoredLists == {cache[i].val : i \in 1..Len(cache)}

\* a relative path of normal segments only: cut at every '/', no piece is
\* empty, '.' or '..'
IsRelativePath(p) ==
    \A i \in 1..Len(split(p, "/")) :
        split(p, "/")[i] \notin {<<>>, <<".">>, <<".", ".">>}

\* the location a client-side or server-side join of root and p names
LocationOf(p) == Resolve(join(root, components(p)))

\* C11: every path of every stored selection is a relative path of normal
\* segments only (no '..', '.', empty or absolute segment), whether it came
\* from `files` or from expanding `dirs`, and so names a location under root.
C11_StoredPathsNormal ==
    \A list \in StoredLists : \A j \in 1..Len(list) :
        /\ IsRelativePath(list[j])
        /\ UnderRoot(LocationOf(list[j]))

\* byte-wise order of two strings: a is a proper prefix of b, or at the first
\* position where they differ a has the smaller byte
BytewiseLess(a, b) ==
    \E k \in 1..(Len(b)) :
        /\ k <= Len(a) + 1
        /\ \A i \in 1..(k - 1) : a[i] = b[i]
        /\ k = Len(a) + 1 \/ Byte(a[k]) < Byte(b[k])

StrictlyAscending(list) ==
    \A j \in 1..(Len(list) - 1) : BytewiseLess(list[j], list[j + 1])

\* C12: every stored file list is strictly ascending in byte-wise order
\* (sorted, no path twice), whatever the request body repeats or overlaps.
C12_StoredListAscending ==
    \A list \in StoredLists : StrictlyAscending(list)

\* a body with overlapping directories has been stored: its expansion found
\* some path more than once and the stored list holds several paths
C12_Witness ==
    /\ Len(cache) >= 1
    /\ Len(raw) >= 1
    /\ Len(body.dirs) >= 2
    /\ \E i, j \in 1..Len(raw[1]) : i # j /\ raw[1][i] = raw[1][j]
    /\ Len(cache[1].val) >= 3
    /\ Len(cache[1].val) < Len(raw[1])

\* the elements of a sequence
Range(seq) == {seq[i] : i \in 1..Len(seq)}

\* The non-directory entries reachable below a set of locations: a file of
\* the tree below a location that is a directory, with every directory from
\* that one down to the file's parent listable.
FilesBelow(starts) ==
    { to_string(strip_root(f)) :
        f \in { g \in Files :
                  \E start \in starts :
                      /\ start \in Dirs
                      /\ Len(g) > Len(start)
                      /\ SubSeq(g, 1, Len(start)) = start
                      /\ \A n \in Len(start)..(Len(g) - 1) :
                             SubSeq(g, 1, n) \notin Unlistable } }

\* the non-directory entries reachable under the directories a body names
ReachableFiles(dirs) ==
    FilesBelow({Resolve(join(root, sanitize_path(dirs[i]))) : i \in 1..Len(dirs)})

\* the distinct paths a body selects
SelectedPaths(b) == Range(b.files) \cup ReachableFiles(b.dirs)

FileAndDirectory == [files |-> <<P_ss>>, dirs |-> <<P_sd>>]

ConfigServed == out.op = "config" /\ out.status = OK

\* C13: the config fetched for a registered body has one (url, output) pair
\* per distinct path among the explicit files and the non-directory entries
\* reachable under the selected directories, all pairs distinct; for a file
\* and a directory holding K files that is K + 1 pairs.
C13_OnePairPerPath ==
    ConfigServed =>
        /\ Len(out.pairs) = Cardinality(SelectedPaths(body))
        /\ Cardinality(Range(out.pairs)) = Len(out.pairs)
        /\ \A p \in SelectedPaths(body) :
               \E i \in 1..Len(out.pairs) :
                   /\ out.pairs[i].output = escape_curl_config_value(p)
                   /\ out.pairs[i].url = FilesUrl \o out.pairs[i].output
        /\ body = FileAndDirectory =>
               Len(out.pairs) = Cardinality(ReachableFiles(<<P_sd>>)) + 1

\* the config of the file ss and the directory sd with its K = 3 files
C13_Witness ==
    /\ ConfigServed
    /\ body = FileAndDirectory
    /\ Cardinality(ReachableFiles(<<P_sd>>)) = 3
    /\ Len(out.pairs) = 4

\* C14: registering the same body again against the unchanged tree gives a
\* different id and the same stored list, whatever order the directory
\* listings came in and the worklist was processed in.
C14_SameInputsSameList ==
    \A i, j \in 1..Len(cache) :
        /\ i # j => cache[i].key # cache[j].key
        /\ cache[i].val = cache[j].val

\* two registrations of one body are stored and their expansions found the
\* files in different orders
C14_Witness ==
    /\ Len(cache) >= 2
    /\ Len(raw) >= 2
    /\ raw[1] # raw[2]
    /\ Len(cache[1].val) >= 3
    /\ cache[1].key # cache[2].key
    /\ phase = "idle"

\* the six characters escape_curl_config_value escapes
EscSpecial == {"\\", "\"", ",", "\n", "\r", "\t"}

\* what a backslash followed by c denotes in a quoted config value
Denoted(c) ==
    CASE c = "n" -> "\n" [] c = "r" -> "\r" [] c = "t" -> "\t" [] OTHER -> c

\* reading a quoted config value: a backslash and the next character denote
\* one character, any other character denotes itself
RECURSIVE unescape(_)
unescape(e) ==
    IF e = <<>> THEN <<>>
    ELSE IF e[1] = "\\" /\ Len(e) >= 2
         THEN <<Denoted(e[2])>> \o unescape(SubSeq(e, 3, Len(e)))
         ELSE <<e[1]>> \o unescape(Tail(e))

SpecialCount(s) == Cardinality({i \in 1..Len(s) : s[i] \in EscSpecial})

\* C15: unescaping escape_curl_config_value(s) gives back exactly s; each of
\* the six special characters becomes a two-character escape and every other
\* character passes unchanged, so the escaped value is longer by the number
\* of special characters; this holds for every stored path s and for each
\* output line of a served config.
C15_EscapeRoundTrip ==
    /\ \A list \in StoredLists : \A s \in Range(list) :
           /\ unescape(escape_curl_config_value(s)) = s
           /\ Len(escape_curl_config_value(s)) = Len(s) + SpecialCount(s)
           /\ \A i \in 1..Len(s) :
                  s[i] \notin EscSpecial => escape_curl_config_value(<<s[i]>>) = <<s[i]>>
    /\ ConfigServed =>
           \A i \in 1..Len(out.pairs) : unescape(out.pairs[i].output) = out.files[i]

\* a config was served for a name holding a backslash followed by n and a
\* comma: the backslash is doubled, the n that follows it left alone
C15_Witness ==
    /\ ConfigServed
    /\ body.files = << <<"\\", "n", ",">> >>
    /\ out.pairs[1].output = <<"\\", "\\", "n", "\\", ",">>

(***************************************************************************)
(* Properties of the failing steps of GET /files/{*path}.                  *)
(***************************************************************************)
\* C16: a request for a directory ends in a status response, never in a
\* failure of the handler, also when the directory cannot be listed.
C16_DirectoryAnswered ==
    Responded /\ Resolve(FullPath) \in Dirs => resp.kind = "response"

\* the file of the request exists when file_handler checks it
FileChecked == Responded /\ Resolve(FullPath) \in Files

\* a status and nothing else: no body is streamed, no download is logged
Refused(code) ==
    /\ resp.kind = "response"
    /\ resp.status = code
    /\ resp.body = None
    /\ resp.contentLength = None
    /\ resp.contentRange = None
    /\ resp.log = "none"

\* C17: when the file passed the existence check but cannot be opened the
\* answer is 404, when it opens but its metadata cannot be read the answer
\* is 500; in both cases no body is streamed and no download is logged.
C17_OpenAndMetadataFailures ==
    /\ FileChecked /\ io = "open_err" => Refused(NOT_FOUND)
    /\ FileChecked /\ io = "metadata_err" => Refused(INTERNAL_SERVER_ERROR)

\* a ranged request for the existing file d/s whose metadata cannot be read
C17_Witness ==
    /\ FileChecked
    /\ reqPath = FilePath
    /\ reqHeader # None
    /\ io = "metadata_err"
    /\ resp.status = INTERNAL_SERVER_ERROR

\* C20: the body of a 206 response is the bytes start..end of the file, in
\* order: it starts at offset start and has end - start + 1 bytes, as the
\* Content-Range and Content-Length say, whatever the seek step returned.
C20_BodyIsRange ==
    Responded /\ resp.kind = "response" /\ resp.status = PARTIAL_CONTENT =>
        LET start == resp.contentRange[1][1]
            end == resp.contentRange[1][2]
        IN  /\ resp.body = Some(<<start, end - start + 1>>)
            /\ resp.contentLength = Some(end - start + 1)

(***************************************************************************)
(* Properties of the worklist loop of expand_dirs.                         *)
(***************************************************************************)
\* a location whose read_dir fails: not a directory, missing, or unlistable
ListingFails(loc) == loc \notin Dirs \/ loc \in Unlistable

\* every location the expansion of dirs lists or tries to list
RECURSIVE VisitedFrom(_)
VisitedFrom(locs) ==
    LET next == locs \cup {e \in Dirs : \E l \in locs : ~ListingFails(l) /\ e \in Children(l)}
    IN  IF next = locs THEN locs ELSE VisitedFrom(next)
Visited(dirs) == VisitedFrom(Range(seed_stack(dirs)))

\* some listing fails while the body is expanded
SomeListingFails == \E loc \in Visited(body.dirs) : ListingFails(loc)

\* C18: when a directory's listing fails during expansion the directory is
\* skipped and nothing else is lost: what is collected plus what is reachable
\* below the pending directories stays every reachable non-directory entry,
\* the returned result holds them all, and the registration succeeds with an
\* id whose stored list holds them.
C18_FailedListingSkipped ==
    SomeListingFails =>
        /\ phase = "expanding" =>
               Range(exp_result) \cup FilesBelow(Range(exp_stack)) = ReachableFiles(body.dirs)
        /\ phase = "expanded" => Range(exp_result) = ReachableFiles(body.dirs)
        /\ phase = "idle" /\ out.op = "register" =>
               /\ out.status = OK
               /\ out.id \in Keys(cache)
               /\ \E i \in 1..Len(cache) :
                      /\ cache[i].key = out.id
                      /\ ReachableFiles(body.dirs) \subseteq Range(cache[i].val)

\* a file, a missing path and an unlistable directory were named next to the
\* directory sd: the registration succeeded with the three files under sd
C18_Witness ==
    /\ body.dirs = <<P_ss, S, P_up_sd, P_d_d>>
    /\ SomeListingFails
    /\ phase = "idle"
    /\ out.op = "register"
    /\ Len(cache) >= 1
    /\ Len(cache[1].val) = 3

\* one iteration takes the top of the worklist off, once, and adds nothing
\* but directories listed in it, each once
PopsOnce ==
    LET top == exp_stack[Len(exp_stack)]
        rest == SubSeq(exp_stack, 1, Len(exp_stack) - 1)
    IN  \E pushed \in Listings(top) \cup {<<>>} :
            LET subdirs == SelectSeq(pushed, LAMBDA e : e \in Dirs)
            IN  /\ exp_stack' = rest \o subdirs
                /\ ListingFails(top) => subdirs = <<>>

\* C19: the worklist loop of expand_dirs terminates for every body over the
\* finite tree: every iteration pops one directory, once per push, a started
\* expansion leads to an empty worklist, from which it returns, and the
\* returned result holds exactly the paths of the non-directory entries reachable
\* under the listable input directories.
C19_ExpansionTerminates ==
    /\ [][phase = "expanding" /\ phase' = "expanding" => PopsOnce]_selVars
    /\ (phase = "expanding") ~> (exp_stack = <<>>)
    /\ [](phase = "expanded" => exp_stack = <<>>)
    /\ [](phase = "expanded" => Range(exp_result) = ReachableFiles(body.dirs))

\* the expansion of overlapping directories (sd, the root, sd/dd) returned:
\* nine paths were collected, five of them distinct
C19_Witness ==
    /\ body.dirs = <<P_sd, <<>>, P_sd_dd>>
    /\ phase = "expanded"
    /\ exp_stack = <<>>
    /\ Len(exp_result) = 9
    /\ Cardinality(Range(exp_result)) = 5

====
